---- MODULE Spec2Model ----
(***************************************************************************)
(* A model of keisku/market_metrics: the Config date-range resolver        *)
(* (config.py), the main() driver and the indicator computations of        *)
(* plot_stock_data (__init__.py).                                          *)
(*                                                                         *)
(* Conventions.                                                            *)
(*  - A Python str is a sequence of one-character strings.                 *)
(*  - A datetime is a record [ord, tod]: the proleptic Gregorian ordinal   *)
(*    of its day (0001-01-01 is 1, as date.toordinal()) and its time of    *)
(*    day.  strftime("%Y-%m-%d") yields the triple <<year, month, day>>.   *)
(*  - A float is an exact rational <<num, den>> with den > 0, or one of    *)
(*    the IEEE specials NaN and Inf.  Rounding error is not modelled.      *)
(***************************************************************************)
EXTENDS Integers, Sequences, FiniteSets, TLC

VARIABLES
    \* main() and Config: the position in main(), the wall clock's day, the
    \* Config instance, the day read by _calculate_start_date, the loop index,
    \* the symbols plotted so far, the exception that ended the run
    pc, clock, midnights, config, current_date, idx, plotted, error,
    \* plot_stock_data: its position, arguments, fetched closing prices,
    \* computed indicators, and how it ended
    ppc, args, close, ind, outcome,
    \* crossover detection on two aligned series
    cpc, serA, serB, golden_cross, death_cross,
    \* calculate_rsi
    rpc, rsi_prices, rsi,
    \* calculate_macd
    mpc, macd_prices, macd, signal_line

mainVars == <<pc, clock, midnights, config, current_date, idx, plotted, error>>
plotVars == <<ppc, args, close, ind, outcome>>
crossVars == <<cpc, serA, serB, golden_cross, death_cross>>
rsiVars == <<rpc, rsi_prices, rsi>>
macdVars == <<mpc, macd_prices, macd, signal_line>>

vars == <<mainVars, plotVars, crossVars, rsiVars, macdVars>>

----------------------------------------------------------------------------
(* Bounds of the model *)

\* Longest period token enumerated over PeriodAlphabet.
MaxTokenLen == 3
\* Longest list of requested symbols.
MaxSymbols == 2
\* Midnights that may pass while a Config is being constructed.
MaxMidnights == 1

----------------------------------------------------------------------------
(* Calendar arithmetic of datetime: strftime, timedelta subtraction *)

\* Days of the year before the first of month m, in a non-leap year.
DaysBeforeMonthTable ==
    <<0, 31, 59, 90, 120, 151, 181, 212, 243, 273, 304, 334>>

\* date.fromordinal: the (year, month, day) of ordinal n, by the 400/100/4/1
\* year cycles.
Ord2Ymd(n) ==
    LET n0   == n - 1
        n400 == n0 \div 146097
        r400 == n0 % 146097
        n100 == r400 \div 36524
        r100 == r400 % 36524
        n4   == r100 \div 1461
        r4   == r100 % 1461
        n1   == r4 \div 365
        r1   == r4 % 365
        year == n400 * 400 + 1 + n100 * 100 + n4 * 4 + n1
        leap == (n1 = 3) /\ ((n4 # 24) \/ (n100 = 3))
        mEst == (r1 + 50) \div 32
        pEst == DaysBeforeMonthTable[mEst] + (IF mEst > 2 /\ leap THEN 1 ELSE 0)
        month == IF pEst > r1 THEN mEst - 1 ELSE mEst
        preceding ==
            DaysBeforeMonthTable[month] + (IF month > 2 /\ leap THEN 1 ELSE 0)
    IN  IF n1 = 4 \/ n100 = 4
        THEN <<year - 1, 12, 31>>
        ELSE <<year, month, r1 - preceding + 1>>

\* datetime.strftime("%Y-%m-%d"): the calendar date, the time of day dropped.
Strftime(dt) == Ord2Ymd(dt.ord)

\* datetime.MINYEAR-01-01 is ordinal 1: a datetime before it is an OverflowError.
DateInRange(o) == o >= 1

----------------------------------------------------------------------------
(* Period tokens *)

Digits == {"0", "1", "2", "3", "4", "5", "6", "7", "8", "9"}

DigitVal(c) ==
    CASE c = "0" -> 0 [] c = "1" -> 1 [] c = "2" -> 2 [] c = "3" -> 3
      [] c = "4" -> 4 [] c = "5" -> 5 [] c = "6" -> 6 [] c = "7" -> 7
      [] c = "8" -> 8 [] c = "9" -> 9

\* int(s) of a string of decimal digits.
RECURSIVE IntOf(_)
IntOf(s) ==
    IF s = <<>> THEN 0
    ELSE 10 * IntOf(SubSeq(s, 1, Len(s) - 1)) + DigitVal(s[Len(s)])

\* Length of the longest prefix of s made of digits: what the greedy \d+ takes.
RECURSIVE DigitRun(_)
DigitRun(s) ==
    IF s # <<>> /\ s[1] \in Digits THEN 1 + DigitRun(Tail(s)) ELSE 0

NoMatch == [matched |-> FALSE, value |-> <<>>, unit |-> ""]

\* re.match(r"(\d+)([dmy])", period): anchored at the start only.  \d+ and
\* [dmy] share no character, so backtracking never shortens the digit run.
ReMatch(period) ==
    LET k == DigitRun(period)
    IN  IF k >= 1 /\ Len(period) > k /\ period[k + 1] \in {"d", "m", "y"}
        THEN [matched |-> TRUE, value |-> SubSeq(period, 1, k), unit |-> period[k + 1]]
        ELSE NoMatch

\* The timedelta's days for a matched value and unit.
DeltaDays31(value, unit) ==
    IF unit = "d" THEN value ELSE IF unit = "m" THEN value * 31 ELSE value * 365
DeltaDays(value, unit) ==
    IF unit = "d" THEN value ELSE IF unit = "m" THEN value * 30 ELSE value * 365

YTD == <<"y", "t", "d">>
MAX == <<"m", "a", "x">>

PeriodAlphabet == {"0", "2", "d", "m", "y", "w"}

RECURSIVE SeqsUpTo(_, _)
SeqsUpTo(S, n) ==
    IF n = 0 THEN {<<>>}
    ELSE LET shorter == SeqsUpTo(S, n - 1)
         IN  shorter \cup {Append(s, c) : s \in {t \in shorter : Len(t) = n - 1}, c \in S}

\* The tokens a user may pass as --period: the help text's, the tests', and
\* every string of up to MaxTokenLen characters of PeriodAlphabet.
NamedPeriods ==
    { YTD, MAX,
      <<"i", "n", "v", "a", "l", "i", "d">>,
      <<"5", "w">>, <<"3", "m">>, <<"1", "y">>, <<"1", "m", "o">>,
      <<"1", "0", "y">>, <<"9", "9", "9", "9", "y">>, <<"y", "t", "d", "x">> }

Periods == NamedPeriods \cup (SeqsUpTo(PeriodAlphabet, MaxTokenLen) \ {<<>>})

----------------------------------------------------------------------------
(* main() and Config *)

SymbolUniverse == <<"DDOG", "MSFT", "VOO", "AAPL">>

\* The requested symbols: a prefix of SymbolUniverse (empty from a blank dialog).
SymbolLists == {SubSeq(SymbolUniverse, 1, n) : n \in 0..MaxSymbols}

\* Days on which the program may be started: 2023-12-31, 2024-02-29,
\* 2024-12-31 (the last day of a leap year), 2026-11-03.
ClockDays == {738885, 738945, 739251, 739923}

\* Times of day a reading of the clock may carry.
TimesOfDay == {0, 86399}

\* The parts of the program a specification does not run stay idle.
MainIdle ==
    /\ pc = "idle" /\ clock = 0 /\ midnights = 0 /\ config = <<>>
    /\ current_date = 0 /\ idx = 0 /\ plotted = <<>> /\ error = <<>>
PlotIdle ==
    ppc = "idle" /\ args = <<>> /\ close = <<>> /\ ind = <<>> /\ outcome = <<>>
CrossIdle ==
    /\ cpc = "idle" /\ serA = <<>> /\ serB = <<>>
    /\ golden_cross = <<>> /\ death_cross = <<>>
RsiIdle == rpc = "idle" /\ rsi_prices = <<>> /\ rsi = <<>>
MacdIdle ==
    mpc = "idle" /\ macd_prices = <<>> /\ macd = <<>> /\ signal_line = <<>>

None == <<>>
NoError == [type |-> "none", arg |-> <<>>]

Init ==
    /\ pc = "post_init"
    /\ clock \in ClockDays
    /\ midnights = 0
    /\ \E p \in Periods, s \in SymbolLists :
          config = [symbols |-> s, period |-> p, start |-> None, end |-> None]
    /\ current_date = 0
    /\ idx = 1
    /\ plotted = <<>>
    /\ error = NoError
    /\ PlotIdle /\ CrossIdle /\ RsiIdle /\ MacdIdle

\* The wall clock passes midnight.
Midnight ==
    /\ pc \in {"post_init", "calculate_start"}
    /\ midnights < MaxMidnights
    /\ clock' = clock + 1
    /\ midnights' = midnights + 1
    /\ UNCHANGED <<pc, config, current_date, idx, plotted, error>>
    /\ UNCHANGED <<plotVars, crossVars, rsiVars, macdVars>>

\* Config.__post_init__, line 20: self.end = datetime.now().strftime(...)
PostInitEnd ==
    /\ pc = "post_init"
    /\ \E t \in TimesOfDay :
          config' = [config EXCEPT !.end = Strftime([ord |-> clock, tod |-> t])]
    /\ pc' = "calculate_start"
    /\ UNCHANGED <<clock, midnights, current_date, idx, plotted, error>>
    /\ UNCHANGED <<plotVars, crossVars, rsiVars, macdVars>>

\* The outcome of Config._calculate_start_date(period) read at datetime `now`:
\* the start string, or the exception raised.
CalculateStartDate(period, now) ==
    IF period = YTD THEN [ok |-> TRUE, start |-> <<Ord2Ymd(now.ord)[1], 1, 1>>, err |-> NoError]
    ELSE IF period = MAX THEN [ok |-> TRUE, start |-> <<1990, 1, 1>>, err |-> NoError]
    ELSE LET match == ReMatch(period)
         IN  IF ~match.matched
             THEN [ok |-> FALSE, start |-> None,
                   err |-> [type |-> "ValueError", arg |-> period]]
             ELSE LET delta == DeltaDays(IntOf(match.value), match.unit)
                      start_date == [ord |-> now.ord - delta, tod |-> now.tod]
                  IN  IF ~DateInRange(start_date.ord)
                      THEN [ok |-> FALSE, start |-> None,
                            err |-> [type |-> "OverflowError", arg |-> <<>>]]
                      ELSE [ok |-> TRUE, start |-> Strftime(start_date), err |-> NoError]

\* Config.__post_init__, line 21: self.start = self._calculate_start_date(...)
PostInitStart ==
    /\ pc = "calculate_start"
    /\ \E t \in TimesOfDay :
          LET r == CalculateStartDate(config.period, [ord |-> clock, tod |-> t])
          IN  /\ current_date' = clock
              /\ IF r.ok
                 THEN /\ config' = [config EXCEPT !.start = r.start]
                      /\ pc' = "loop"
                      /\ error' = error
                 ELSE /\ config' = config
                      /\ pc' = "raised"
                      /\ error' = r.err
    /\ UNCHANGED <<clock, midnights, idx, plotted>>
    /\ UNCHANGED <<plotVars, crossVars, rsiVars, macdVars>>

\* main(), lines 383-393: one iteration of `for symbol in config.symbols`.
\* The call's arguments are evaluated first; config.period_in_days is an
\* attribute lookup on the Config instance.
MainLoopIteration ==
    /\ pc = "loop"
    /\ idx <= Len(config.symbols)
    /\ IF "period_in_days" \in DOMAIN config
       THEN /\ plotted' = Append(plotted, config.symbols[idx])
            /\ idx' = idx + 1
            /\ UNCHANGED <<pc, error>>
       ELSE /\ pc' = "raised"
            /\ error' = [type |-> "AttributeError", arg |-> <<"period_in_days">>]
            /\ UNCHANGED <<idx, plotted>>
    /\ UNCHANGED <<clock, midnights, config, current_date>>
    /\ UNCHANGED <<plotVars, crossVars, rsiVars, macdVars>>

\* main(), lines 395-396: plt.show(); return 0
MainReturn ==
    /\ pc = "loop"
    /\ idx > Len(config.symbols)
    /\ pc' = "done"
    /\ UNCHANGED <<clock, midnights, config, current_date, idx, plotted, error>>
    /\ UNCHANGED <<plotVars, crossVars, rsiVars, macdVars>>

Next == Midnight \/ PostInitEnd \/ PostInitStart \/ MainLoopIteration \/ MainReturn

Spec == Init /\ [][Next]_vars

----------------------------------------------------------------------------
(* Properties of Config and main() *)

\* The Gregorian calendar, stated directly.
IsLeap(y) == (y % 4 = 0) /\ ((y % 100 # 0) \/ (y % 400 = 0))

DaysInMonth(y, m) ==
    IF m = 2 THEN (IF IsLeap(y) THEN 29 ELSE 28)
    ELSE IF m \in {4, 6, 9, 11} THEN 30 ELSE 31

\* The ordinal of calendar date (y, m, d), counted directly: the days of the
\* years before y, of the months of y before m, and d.
RECURSIVE DaysBeforeMonth(_, _)
DaysBeforeMonth(y, m) ==
    IF m = 1 THEN 0 ELSE DaysBeforeMonth(y, m - 1) + DaysInMonth(y, m - 1)

Ymd2Ord(y, m, d) ==
    (y - 1) * 365 + ((y - 1) \div 4) - ((y - 1) \div 100) + ((y - 1) \div 400)
    + DaysBeforeMonth(y, m) + d

\* s is a calendar date and nothing more: year, month, day of that month.
IsCalendarDate(s) ==
    /\ Len(s) = 3
    /\ s[1] >= 1
    /\ s[2] \in 1..12
    /\ s[3] \in 1..DaysInMonth(s[1], s[2])

IsDigits(s) == s # <<>> /\ \A i \in 1..Len(s) : s[i] \in Digits

UnitFactor(u) == IF u[1] = "d" THEN 1 ELSE IF u[1] = "m" THEN 30 ELSE 365

\* The ways to read p as "<n><unit>", unit one of d, m, mo, y: the pairs
\* <<n, days per unit>>.  At most one.
PeriodShapes(p) ==
    { <<IntOf(SubSeq(p, 1, k)), UnitFactor(u)>> :
        <<k, u>> \in { x \in (1..Len(p)) \X {<<"d">>, <<"m">>, <<"m", "o">>, <<"y">>} :
                         /\ IsDigits(SubSeq(p, 1, x[1]))
                         /\ SubSeq(p, x[1] + 1, Len(p)) = x[2] } }

\* The periods the contract accepts: ytd, max, or a positive count and a unit.
ContractAccepts(p) ==
    p \in {YTD, MAX} \/ \E sh \in PeriodShapes(p) : sh[1] > 0

Constructed == config.start # None

\* C1: in every constructed Config, start is a calendar date without a time of
\* day, and it is January 1 of the year of `now` for "ytd", 1990-01-01 for
\* "max", and the date n, n*30 or n*365 days before `now` for "<n>d",
\* "<n>m"/"<n>mo" and "<n>y".
C1_StartDate ==
    Constructed =>
        /\ IsCalendarDate(config.start)
        /\ config.period = YTD =>
              /\ config.start[2] = 1 /\ config.start[3] = 1
              /\ Ymd2Ord(config.start[1], 1, 1) <= current_date
              /\ current_date < Ymd2Ord(config.start[1] + 1, 1, 1)
        /\ config.period = MAX => config.start = <<1990, 1, 1>>
        /\ \A sh \in PeriodShapes(config.period) :
              Ymd2Ord(config.start[1], config.start[2], config.start[3])
                  = current_date - sh[1] * sh[2]

\* "1mo" read on 2024-02-29 starts on 2024-01-30.
C1_Witness ==
    /\ pc = "loop"
    /\ config.period = <<"1", "m", "o">>
    /\ current_date = 738945
    /\ config.start = <<2024, 1, 30>>

\* C2: a Config constructed from "<n>d", "<n>m(o)" or "<n>y" has a
\* period_in_days attribute equal to n, n*30 or n*365.
C2_PeriodInDays ==
    Constructed =>
        \A sh \in PeriodShapes(config.period) :
            /\ "period_in_days" \in DOMAIN config
            /\ config.period_in_days = sh[1] * sh[2]

\* C3: once _calculate_start_date has run on a token the contract does not
\* accept, it has raised ValueError carrying the token and no start date exists.
C3_InvalidRejected ==
    (pc \notin {"post_init", "calculate_start"} /\ ~ContractAccepts(config.period)) =>
        /\ pc = "raised"
        /\ error = [type |-> "ValueError", arg |-> config.period]
        /\ config.start = None

\* Calendar order of two formatted dates.
DateLeq(a, b) ==
    \/ a[1] < b[1]
    \/ a[1] = b[1] /\ a[2] < b[2]
    \/ a[1] = b[1] /\ a[2] = b[2] /\ a[3] <= b[3]

\* C4: in every constructed Config, start <= end.
C4_StartLeqEnd == Constructed => DateLeq(config.start, config.end)

\* C8: when main() has ended, nothing was plotted if the period was invalid,
\* and otherwise every requested symbol was plotted, in request order.
C8_AbortOrAllInOrder ==
    pc \in {"done", "raised"} =>
        IF Constructed THEN plotted = config.symbols ELSE plotted = <<>>

----------------------------------------------------------------------------
(* Floats: exact rationals and the IEEE specials *)

Num(n, d) == [k |-> "num", n |-> n, d |-> d]
NaN == [k |-> "nan", n |-> 0, d |-> 1]
\* An infinity carries its sign in n.
Inf == [k |-> "inf", n |-> 1, d |-> 1]

Abs(x) == IF x < 0 THEN -x ELSE x

RECURSIVE GCD(_, _)
GCD(a, b) == IF b = 0 THEN a ELSE GCD(b, a % b)

\* The rational n/d (d > 0) in lowest terms.
Norm(n, d) ==
    IF n = 0 THEN Num(0, 1)
    ELSE LET g == GCD(Abs(n), d) IN Num(n \div g, d \div g)

Sign(n) == IF n < 0 THEN -1 ELSE 1

FNeg(x) == IF x.k = "nan" THEN NaN ELSE [x EXCEPT !.n = -x.n]

FAdd(x, y) ==
    IF x.k = "nan" \/ y.k = "nan" THEN NaN
    ELSE IF x.k = "inf" /\ y.k = "inf" THEN (IF x.n = y.n THEN x ELSE NaN)
    ELSE IF x.k = "inf" THEN x
    ELSE IF y.k = "inf" THEN y
    ELSE LET l == (x.d \div GCD(x.d, y.d)) * y.d
         IN  Norm(x.n * (l \div x.d) + y.n * (l \div y.d), l)

FSub(x, y) == FAdd(x, FNeg(y))

FMul(x, y) ==
    IF x.k = "nan" \/ y.k = "nan" THEN NaN
    ELSE IF x.k = "inf" \/ y.k = "inf"
         THEN (IF x.n = 0 \/ y.n = 0 THEN NaN
               ELSE [k |-> "inf", n |-> Sign(x.n) * Sign(y.n), d |-> 1])
    ELSE IF x.n = 0 \/ y.n = 0 THEN Num(0, 1)
    ELSE LET g1 == GCD(Abs(x.n), y.d)
             g2 == GCD(Abs(y.n), x.d)
         IN  Norm((x.n \div g1) * (y.n \div g2), (x.d \div g2) * (y.d \div g1))

\* IEEE division: 0/0 and inf/inf are NaN, x/0 is an infinity, x/inf is 0.
FDiv(x, y) ==
    IF x.k = "nan" \/ y.k = "nan" THEN NaN
    ELSE IF y.k = "inf" THEN (IF x.k = "inf" THEN NaN ELSE Num(0, 1))
    ELSE IF y.n = 0
         THEN (IF x.n = 0 THEN NaN ELSE [k |-> "inf", n |-> Sign(x.n), d |-> 1])
    ELSE IF x.k = "inf" THEN [k |-> "inf", n |-> Sign(x.n) * Sign(y.n), d |-> 1]
    ELSE FMul(x, Num(Sign(y.n) * y.d, Abs(y.n)))

\* x < y; every comparison with NaN is false.
FLt(x, y) ==
    IF x.k = "nan" \/ y.k = "nan" THEN FALSE
    ELSE IF x.k = "inf" /\ y.k = "inf" THEN x.n < y.n
    ELSE IF x.k = "inf" THEN x.n < 0
    ELSE IF y.k = "inf" THEN y.n > 0
    ELSE x.n * y.d < y.n * x.d

\* x == y
FEq(x, y) == x.k # "nan" /\ y.k # "nan" /\ x = y

RECURSIVE FSum(_)
FSum(s) == IF s = <<>> THEN Num(0, 1) ELSE FAdd(FSum(SubSeq(s, 1, Len(s) - 1)), s[Len(s)])

\* A series of integer prices as floats.
AsFloats(s) == [t \in 1..Len(s) |-> Num(s[t], 1)]

----------------------------------------------------------------------------
(* pandas Series operations used by plot_stock_data *)

\* Series.shift(1): every value moves one row down, the first row becomes NaN.
ShiftNone(s) == s
ShiftOne(s) == [t \in 1..Len(s) |-> IF t = 1 THEN NaN ELSE s[t - 1]]

\* Series.rolling(window).mean(): NaN until `window` rows are there, and
\* wherever the window holds a NaN.
RollingMean(s, window) ==
    [t \in 1..Len(s) |->
        IF t < window THEN NaN
        ELSE FDiv(FSum(SubSeq(s, t - window + 1, t)), Num(window, 1))]

\* (a.shift(1) < b.shift(1)) & (a > b), row by row
GoldenCross(a, b) ==
    [t \in 1..Len(a) |-> FLt(ShiftOne(a)[t], ShiftOne(b)[t]) /\ FLt(b[t], a[t])]

\* (a.shift(1) > b.shift(1)) & (a < b), row by row
DeathCross(a, b) ==
    [t \in 1..Len(a) |-> FLt(ShiftOne(b)[t], ShiftOne(a)[t]) /\ FLt(a[t], b[t])]

----------------------------------------------------------------------------
(* Crossover detection on its own: two aligned series in, two event series out *)

\* Longest pair of series.
MaxCrossLen == 4

\* The levels the two series take.
CrossLevels == {1, 2, 3}

\* Series of length n: NaN while the window warms up, then levels.
WarmSeries(n) ==
    UNION { { [t \in 1..n |-> IF t <= w THEN NaN ELSE Num(v[t - w], 1)] :
                v \in [1..(n - w) -> CrossLevels] } : w \in 0..n }

InitCross ==
    /\ cpc = "start"
    /\ \E n \in 0..MaxCrossLen : serA \in WarmSeries(n) /\ serB \in WarmSeries(n)
    /\ golden_cross = <<>>
    /\ death_cross = <<>>
    /\ MainIdle /\ PlotIdle /\ RsiIdle /\ MacdIdle

\* __init__.py lines 41-42 (short_ma, long_ma) and 287-288 (macd, signal_line)
DetectCross ==
    /\ cpc = "start"
    /\ golden_cross' = GoldenCross(serA, serB)
    /\ death_cross' = DeathCross(serA, serB)
    /\ cpc' = "done"
    /\ UNCHANGED <<serA, serB>>
    /\ UNCHANGED <<mainVars, plotVars, rsiVars, macdVars>>

NextCross == DetectCross

SpecCross == InitCross /\ [][NextCross]_vars

Defined(x) == x.k = "num"

\* x lies below y, for two defined values.
Below(x, y) == x.n * y.d < y.n * x.d

ExampleA == AsFloats(<<1, 1, 3, 3>>)
ExampleB == AsFloats(<<2, 2, 2, 2>>)

\* C5: the event series are as long as the inputs; golden_cross[t] holds
\* exactly when t has a predecessor, all four values at t-1 and t are defined,
\* A was below B at t-1 and is above B at t; death_cross[t] likewise with A
\* and B exchanged.  For A = [1,1,3,3], B = [2,2,2,2] the only golden cross is
\* at the third row and there is no death cross.
C5_Crossover ==
    cpc = "done" =>
        /\ Len(golden_cross) = Len(serA) /\ Len(death_cross) = Len(serA)
        /\ \A t \in 1..Len(serA) :
              LET both == /\ t >= 2
                          /\ Defined(serA[t - 1]) /\ Defined(serB[t - 1])
                          /\ Defined(serA[t]) /\ Defined(serB[t])
              IN  /\ golden_cross[t] <=>
                        (both /\ Below(serA[t - 1], serB[t - 1]) /\ Below(serB[t], serA[t]))
                  /\ death_cross[t] <=>
                        (both /\ Below(serB[t - 1], serA[t - 1]) /\ Below(serA[t], serB[t]))
        /\ (serA = ExampleA /\ serB = ExampleB) =>
              /\ golden_cross = <<FALSE, FALSE, TRUE, FALSE>>
              /\ death_cross = <<FALSE, FALSE, FALSE, FALSE>>

C5_Witness ==
    /\ cpc = "done"
    /\ serA = ExampleA /\ serB = ExampleB
    /\ golden_cross[3]

----------------------------------------------------------------------------
(* plot_stock_data *)

TRADING_DAYS_IN_YEAR == 252
YEAR_IN_DAYS == 365

\* A non-negative float known by its square: the value of a std() or of
\* np.sqrt.  Two roots are equal when their squares are, and the product of two
\* roots is the root of the product.
Root(x) == [root_of |-> x]
RootMul(r, q) == Root(FMul(r.root_of, q.root_of))
RootEq(r, q) == FEq(r.root_of, q.root_of)

\* The float 0.0
NA_ANNUAL_VOLATILITY == Root(Num(0, 1))

\* Longest fetched price series, highest closing price, widest window.
MaxPrices == 3
MaxPrice == 3
MaxWindow == 2

PriceSeries == SeqsUpTo(1..MaxPrice, MaxPrices)

\* The period lengths main() may pass: a month, and days around the year mark.
PeriodDayChoices == {30, YEAR_IN_DAYS - 1, YEAR_IN_DAYS, 2 * YEAR_IN_DAYS}

\* Series.pct_change(): s / s.shift(1) - 1
PctChange(s) ==
    [t \in 1..Len(s) |-> FSub(FDiv(s[t], ShiftOne(s)[t]), Num(1, 1))]

IsNum(x) == x.k # "nan"

\* Series.std(): the sample standard deviation (ddof=1) of the values that are
\* not NaN; NaN when fewer than two are left.
Std(s) ==
    LET vals == SelectSeq(s, IsNum)
        n    == Len(vals)
        mean == FDiv(FSum(vals), Num(n, 1))
        sq   == [t \in 1..n |-> FMul(FSub(vals[t], mean), FSub(vals[t], mean))]
    IN  Root(IF n < 2 THEN NaN ELSE FDiv(FSum(sq), Num(n - 1, 1)))

\* Lines 34-37.
AnnualVolatility(daily_volatility, period_in_days) ==
    IF period_in_days >= YEAR_IN_DAYS
    THEN RootMul(daily_volatility, Root(Num(TRADING_DAYS_IN_YEAR, 1)))
    ELSE NA_ANNUAL_VOLATILITY

\* Series.max() and Series.min(): NaN of an empty series.
RECURSIVE SeriesMax(_)
SeriesMax(s) ==
    IF s = <<>> THEN NaN
    ELSE LET m == SeriesMax(Tail(s))
         IN  IF m.k = "nan" \/ FLt(m, s[1]) THEN s[1] ELSE m

RECURSIVE SeriesMin(_)
SeriesMin(s) ==
    IF s = <<>> THEN NaN
    ELSE LET m == SeriesMin(Tail(s))
         IN  IF m.k = "nan" \/ FLt(s[1], m) THEN s[1] ELSE m

\* Series.mean()
SeriesMean(s) == FDiv(FSum(s), Num(Len(s), 1))

\* s[s == v].index: the rows holding v
RowsEqual(s, v) == {t \in 1..Len(s) : FEq(s[t], v)}

\* 0.236, 0.382, 0.5, 0.618, 0.786
FibRatios == <<Num(59, 250), Num(191, 500), Num(1, 2), Num(309, 500), Num(393, 500)>>

\* Lines 60-63.
FibLevels(max_price, min_price) ==
    [i \in 1..Len(FibRatios) |->
        FSub(max_price, FMul(FSub(max_price, min_price), FibRatios[i]))]

InitPlot ==
    /\ ppc = "start"
    /\ \E d \in PeriodDayChoices, sw \in 1..MaxWindow, lw \in 1..MaxWindow :
          args = [period_in_days |-> d, short_window |-> sw, long_window |-> lw]
    /\ close = <<>>
    /\ ind = <<>>
    /\ outcome = <<>>
    /\ MainIdle /\ CrossIdle /\ RsiIdle /\ MacdIdle

\* Lines 29-32: company.history(...) returns the daily rows of the range, none
\* when the provider has no data for it.
Fetch ==
    /\ ppc = "start"
    /\ \E s \in PriceSeries : close' = AsFloats(s)
    /\ ppc' = "fetched"
    /\ UNCHANGED <<args, ind, outcome>>
    /\ UNCHANGED <<mainVars, crossVars, rsiVars, macdVars>>

\* Lines 34-63, without the Bollinger bands, RSI and MACD, which only feed the
\* drawing.
ComputeIndicators ==
    /\ ppc = "fetched"
    /\ LET daily_volatility == Std(PctChange(close))
           short_ma  == RollingMean(close, args.short_window)
           long_ma   == RollingMean(close, args.long_window)
           max_price == SeriesMax(close)
           min_price == SeriesMin(close)
       IN  ind' = [ daily_volatility  |-> daily_volatility,
                    annual_volatility |->
                        AnnualVolatility(daily_volatility, args.period_in_days),
                    short_ma     |-> short_ma,
                    long_ma      |-> long_ma,
                    golden_cross |-> GoldenCross(short_ma, long_ma),
                    death_cross  |-> DeathCross(short_ma, long_ma),
                    max_price    |-> max_price,
                    min_price    |-> min_price,
                    mean_price   |-> SeriesMean(close),
                    max_dates    |-> RowsEqual(close, max_price),
                    min_dates    |-> RowsEqual(close, min_price),
                    fib_levels   |-> FibLevels(max_price, min_price) ]
    /\ ppc' = "computed"
    /\ UNCHANGED <<args, close, outcome>>
    /\ UNCHANGED <<mainVars, crossVars, rsiVars, macdVars>>

\* Lines 136-163: the buy/sell marker of each Fibonacci level, from the last
\* close.
FibSignals(last, fib_levels) ==
    [i \in 1..Len(fib_levels) |->
        IF FLt(fib_levels[i], last) THEN "buy"
        ELSE IF FLt(last, fib_levels[i]) THEN "sell" ELSE "none"]

\* Lines 165-171: the title's format.
TitleFormat(annual_volatility) ==
    IF RootEq(annual_volatility, NA_ANNUAL_VOLATILITY) THEN "daily" ELSE "daily_and_annual"

\* Lines 65-330: the drawing.  company_history.index[-1] (line 145) and
\* company_close_prices.iloc[-1] (line 146) index the last row.
Render ==
    /\ ppc = "computed"
    /\ IF Len(close) = 0
       THEN outcome' = [exception |-> "IndexError", signals |-> <<>>, title |-> ""]
       ELSE outcome' = [exception |-> "none",
                        signals |-> FibSignals(close[Len(close)], ind.fib_levels),
                        title |-> TitleFormat(ind.annual_volatility)]
    /\ ppc' = "done"
    /\ UNCHANGED <<args, close, ind>>
    /\ UNCHANGED <<mainVars, crossVars, rsiVars, macdVars>>

NextPlot == Fetch \/ ComputeIndicators \/ Render

SpecPlot == InitPlot /\ [][NextPlot]_vars

\* C6: for a series of at least two prices, annual_volatility is the sentinel
\* when period_in_days < 365 and a finite non-negative number other than the
\* sentinel when period_in_days >= 365, so that the title takes the annualized
\* format exactly when period_in_days >= 365.
C6_AnnualVolatility ==
    (ppc \in {"computed", "done"} /\ Len(close) >= 2) =>
        /\ args.period_in_days < YEAR_IN_DAYS =>
              ind.annual_volatility = NA_ANNUAL_VOLATILITY
        /\ args.period_in_days >= YEAR_IN_DAYS =>
              /\ ind.annual_volatility.root_of.k = "num"
              /\ ind.annual_volatility.root_of.n >= 0
              /\ ind.annual_volatility # NA_ANNUAL_VOLATILITY
        /\ ppc = "done" =>
              (outcome.title = "daily_and_annual" <=> args.period_in_days >= YEAR_IN_DAYS)

\* C7: on an empty price series plot_stock_data ends without an indexing
\* error: it returns, or signals InsufficientDataError.
C7_EmptySeries ==
    (ppc = "done" /\ close = <<>>) =>
        outcome.exception \in {"none", "InsufficientDataError"}

----------------------------------------------------------------------------
(* calculator.calculate_rsi *)

RSI_WINDOW == 14

\* Longest price series handed to calculate_rsi.
MaxRsiLen == 16

\* The day-over-day moves of a price.
Steps == {-1, 0, 1}

Min(a, b) == IF a < b THEN a ELSE b

\* n prices in three stretches: from `first` the price moves by c[1] a day for
\* b1 days, then by c[2] a day up to day b2, then by c[3] a day.
Stretches(n, first, c, b1, b2) ==
    [t \in 1..n |->
        first + c[1] * Min(t - 1, b1)
              + c[2] * (Min(t - 1, b2) - Min(t - 1, b1))
              + c[3] * ((t - 1) - Min(t - 1, b2))]

\* Series.diff(): close[t] - close[t-1], NaN in the first row
Diff(s) == [t \in 1..Len(s) |-> FSub(s[t], ShiftOne(s)[t])]

\* max(x, 0), NaN kept
ClipZero(x) == IF x.k = "nan" THEN NaN ELSE IF FLt(x, Num(0, 1)) THEN Num(0, 1) ELSE x

\* rs = avg_gain / avg_loss
RelativeStrengthFilled(avg_gain, avg_loss) ==
    IF avg_loss.k = "num" /\ avg_loss.n = 0 THEN Num(0, 1) ELSE FDiv(avg_gain, avg_loss)
RelativeStrength(avg_gain, avg_loss) == FDiv(avg_gain, avg_loss)

\* calculate_rsi(prices, window)
CalculateRsi(prices, window) ==
    LET delta    == Diff(prices)
        gain     == [t \in 1..Len(delta) |-> ClipZero(delta[t])]
        loss     == [t \in 1..Len(delta) |-> ClipZero(FNeg(delta[t]))]
        avg_gain == RollingMean(gain, window)
        avg_loss == RollingMean(loss, window)
    IN  [t \in 1..Len(prices) |->
            FSub(Num(100, 1),
                 FDiv(Num(100, 1),
                      FAdd(Num(1, 1), RelativeStrength(avg_gain[t], avg_loss[t]))))]

InitRsi ==
    /\ rpc = "start"
    /\ \E n \in 0..MaxRsiLen, c \in Steps \X Steps \X Steps :
          \E b1 \in 0..n : \E b2 \in b1..n :
              rsi_prices = Stretches(n, 50, c, b1, b2)
    /\ rsi = <<>>
    /\ MainIdle /\ PlotIdle /\ CrossIdle /\ MacdIdle

CallCalculateRsi ==
    /\ rpc = "start"
    /\ rsi' = CalculateRsi(AsFloats(rsi_prices), RSI_WINDOW)
    /\ rpc' = "done"
    /\ UNCHANGED rsi_prices
    /\ UNCHANGED <<mainVars, plotVars, crossVars, macdVars>>

NextRsi == CallCalculateRsi

SpecRsi == InitRsi /\ [][NextRsi]_vars

\* The total rise, and the total fall, over the RSI_WINDOW moves that end at
\* row t.
RECURSIVE Rise(_, _, _)
Rise(p, t, n) ==
    IF n = 0 THEN 0
    ELSE Rise(p, t - 1, n - 1) + (IF p[t] > p[t - 1] THEN p[t] - p[t - 1] ELSE 0)

RECURSIVE Fall(_, _, _)
Fall(p, t, n) ==
    IF n = 0 THEN 0
    ELSE Fall(p, t - 1, n - 1) + (IF p[t] < p[t - 1] THEN p[t - 1] - p[t] ELSE 0)

\* C9: the RSI series is as long as the prices; at every row with RSI_WINDOW
\* moves behind it, RSI is NaN when the window neither rose nor fell (so a
\* flat series has no RSI from the warm-up on), and otherwise a number in
\* [0, 100], 100 when the window never fell (so a strictly rising series has
\* RSI 100 after the warm-up).
C9_Rsi ==
    rpc = "done" =>
        /\ Len(rsi) = Len(rsi_prices)
        /\ \A t \in (RSI_WINDOW + 1)..Len(rsi_prices) :
              LET g == Rise(rsi_prices, t, RSI_WINDOW)
                  l == Fall(rsi_prices, t, RSI_WINDOW)
              IN  /\ (g = 0 /\ l = 0) => rsi[t] = NaN
                  /\ (g + l > 0) =>
                        /\ rsi[t].k = "num"
                        /\ 0 <= rsi[t].n /\ rsi[t].n <= 100 * rsi[t].d
                        /\ (l = 0) => rsi[t] = Num(100, 1)

\* A window that both rose and fell: an RSI strictly between 0 and 100.
C9_Witness ==
    /\ rpc = "done"
    /\ Len(rsi_prices) = MaxRsiLen
    /\ rsi[MaxRsiLen].k = "num"
    /\ 0 < rsi[MaxRsiLen].n /\ rsi[MaxRsiLen].n < 100 * rsi[MaxRsiLen].d

----------------------------------------------------------------------------
(* calculator.calculate_macd *)

MACD_SHORT == 12
MACD_LONG == 26
MACD_SIGNAL == 9

\* Longest flat price series handed to calculate_macd.
MaxFlatLen == 30

FlatLevels == {1, 50, 100}

\* Flat series of every length and level, and a few short moving ones.
MacdInputs ==
    {[t \in 1..n |-> c] : n \in 0..MaxFlatLen, c \in FlatLevels}
    \cup {<<10, 11>>, <<10, 11, 12>>, <<12, 11, 10>>, <<100, 50, 100>>}

\* The first value of an exponential moving average.
EmaSeedZero(values) == Num(0, 1)
EmaSeed(values) == values[1]

\* ema[t] = alpha * value[t] + (1 - alpha) * ema[t-1], alpha = 2 / (span + 1)
RECURSIVE Ema(_, _)
Ema(values, span) ==
    IF values = <<>> THEN <<>>
    ELSE IF Len(values) = 1 THEN <<EmaSeed(values)>>
    ELSE LET alpha == FDiv(Num(2, 1), Num(span + 1, 1))
             prev  == Ema(SubSeq(values, 1, Len(values) - 1), span)
         IN  Append(prev,
                    FAdd(FMul(alpha, values[Len(values)]),
                         FMul(FSub(Num(1, 1), alpha), prev[Len(prev)])))

\* calculate_macd(prices): the MACD line and its signal line
CalculateMacd(prices) ==
    LET short_ema == Ema(prices, MACD_SHORT)
        long_ema  == Ema(prices, MACD_LONG)
        line      == [t \in 1..Len(prices) |-> FSub(short_ema[t], long_ema[t])]
    IN  [macd |-> line, signal |-> Ema(line, MACD_SIGNAL)]

InitMacd ==
    /\ mpc = "start"
    /\ macd_prices \in MacdInputs
    /\ macd = <<>>
    /\ signal_line = <<>>
    /\ MainIdle /\ PlotIdle /\ CrossIdle /\ RsiIdle

CallCalculateMacd ==
    /\ mpc = "start"
    /\ LET r == CalculateMacd(AsFloats(macd_prices))
       IN  macd' = r.macd /\ signal_line' = r.signal
    /\ mpc' = "done"
    /\ UNCHANGED macd_prices
    /\ UNCHANGED <<mainVars, plotVars, crossVars, rsiVars>>

NextMacd == CallCalculateMacd

SpecMacd == InitMacd /\ [][NextMacd]_vars

IsFlat(p) == \A t \in 1..Len(p) : p[t] = p[1]

\* C10: MACD and signal line are as long as the prices and hold no NaN; for a
\* flat price series both are exactly 0 in every row, the first included.
C10_Macd ==
    mpc = "done" =>
        /\ Len(macd) = Len(macd_prices) /\ Len(signal_line) = Len(macd_prices)
        /\ \A t \in 1..Len(macd_prices) : macd[t].k = "num" /\ signal_line[t].k = "num"
        /\ IsFlat(macd_prices) =>
              \A t \in 1..Len(macd_prices) :
                  macd[t] = Num(0, 1) /\ signal_line[t] = Num(0, 1)

\* The flat series of the repository's test: thirty prices of 100.
C10_Witness ==
    /\ mpc = "done"
    /\ macd_prices = [t \in 1..30 |-> 100]
    /\ macd[1] = Num(0, 1) /\ signal_line[30] = Num(0, 1)

====
